---- MODULE Spec2Model ----
(***************************************************************************)
(* A model of n3dc_obj.h: the loader n3dc_obj_load, its scanners and its   *)
(* numeric converters.  Characters are one-character strings, the source   *)
(* buffer is a sequence of them, and offsets are 0-based as in the C code  *)
(* (CharAt(i) is file_chars[i]).                                           *)
(***************************************************************************)
EXTENDS Integers, Sequences, FiniteSets, TLC

VARIABLES
    file_chars,             \* the bytes read from the file (without the '\0')
    max_vertices, max_normals, max_indices,
    current_char_offset,
    vertices, vertex_offset, parsed_vertices,
    texture_coords, texture_coord_offset, parsed_texture_coords,
    normals, normal_offset, parsed_normals,
    vertex_indices, texture_indices, normal_indices,
    parsed_indices, index_offset,
    error,
    ordered_vertices, ordered_texture_coords, ordered_normals,
    i,                      \* the resolver loop's counter
    mallocs, frees,         \* per buffer: calls of malloc and of free
    stdout,                 \* the diagnostics printed so far
    obj,                    \* the fields of the n3dc_obj_t allocated at the end
    result,                 \* the pointer returned: NoReturn, NULL or "obj"
    pc

vars == <<file_chars, max_vertices, max_normals, max_indices,
          current_char_offset,
          vertices, vertex_offset, parsed_vertices,
          texture_coords, texture_coord_offset, parsed_texture_coords,
          normals, normal_offset, parsed_normals,
          vertex_indices, texture_indices, normal_indices,
          parsed_indices, index_offset, error,
          ordered_vertices, ordered_texture_coords, ordered_normals,
          i, mallocs, frees, stdout, obj, result, pc>>

(***************************************************************************)
(* Numbers and characters                                                  *)
(***************************************************************************)
\* An unsigned int (32 bits) is a pair <<high, low>> of 16-bit halves, its value
\* high * 2^16 + low, so that the arithmetic modulo 2^32 stays exact.
HALF == 65536

\* (unsigned)n for an int n.
U32(n) == <<(n \div HALF) % HALF, n % HALF>>

U32IsZero(u) == u = <<0, 0>>

\* u - 1 for u # 0.
U32Dec(u) == IF u[2] > 0 THEN <<u[1], u[2] - 1>> ELSE <<u[1] - 1, HALF - 1>>

\* u * k and u + k modulo 2^32, for a small k.
U32Mul(u, k) == <<(u[1] * k + (u[2] * k) \div HALF) % HALF, (u[2] * k) % HALF>>

U32Add(u, k) == <<(u[1] + (u[2] + k) \div HALF) % HALF, (u[2] + k) % HALF>>

\* The values below 2^31 as integers.
U32IsInt(u) == u[1] < HALF \div 2

U32Int(u) == u[1] * HALF + u[2]

CHAR_BUDGET == 10

NUL == "\\0"

Digits == <<"0", "1", "2", "3", "4", "5", "6", "7", "8", "9">>

IsDigit(c) == \E d \in 1..10 : Digits[d] = c

DigitVal(c) == (CHOOSE d \in 1..10 : Digits[d] = c) - 1

\* isspace() of the C locale, as atoi and atof use it to skip leading blanks.
IsSpace(c) == c \in {" ", "\n", "\t", "\r"}

n3dc_obj_min_uint(a, b) == IF a < b THEN a ELSE b

file_chars_length == Len(file_chars)

\* file_chars[k]: the buffer holds file_chars_length bytes and a final '\0'.
CharAt(k) == IF k < file_chars_length THEN file_chars[k + 1] ELSE NUL

\* The copy both converters make: at most CHAR_BUDGET characters from start
\* (a negative end - start is a large unsigned int, and the minimum is the
\* budget).
StringSection(start, end) ==
    LET char_count == IF end - start < 0 THEN CHAR_BUDGET
                      ELSE n3dc_obj_min_uint(end - start, CHAR_BUDGET)
    IN  [k \in 1..char_count |-> CharAt(start + k - 1)]

RECURSIVE SkipSpaces(_, _)
SkipSpaces(s, k) ==
    IF k <= Len(s) /\ IsSpace(s[k]) THEN SkipSpaces(s, k + 1) ELSE k

RECURSIVE DigitRunEnd(_, _)
DigitRunEnd(s, k) ==
    IF k <= Len(s) /\ IsDigit(s[k]) THEN DigitRunEnd(s, k + 1) ELSE k

\* The value of the digits s[from..to-1], 0 for an empty run.
RECURSIVE DigitRunValue(_, _, _)
DigitRunValue(s, from, to) ==
    IF from >= to THEN 0
    ELSE DigitRunValue(s, from, to - 1) * 10 + DigitVal(s[to - 1])

\* atoi: leading blanks, an optional sign, then digits up to the first other
\* character.  The inputs of this model keep the digits below 2^31, where
\* atoi is defined.
Atoi(s) ==
    LET b == SkipSpaces(s, 1)
        signed == b <= Len(s) /\ s[b] \in {"-", "+"}
        d == IF signed THEN b + 1 ELSE b
        e == DigitRunEnd(s, d)
        n == DigitRunValue(s, d, e)
    IN  IF signed /\ s[b] = "-" THEN 0 - n ELSE n

RECURSIVE Pow10(_)
Pow10(n) == IF n = 0 THEN 1 ELSE 10 * Pow10(n - 1)

\* A decimal value m / 10^e in lowest form, as the pair <<m, e>>; 0 is <<0, 0>>.
RECURSIVE Decimal(_, _)
Decimal(m, e) ==
    IF e > 0 /\ m % 10 = 0 THEN Decimal(m \div 10, e - 1) ELSE <<m, e>>

\* atof on the characters the vector scanners let through: leading blanks, an
\* optional sign, digits, an optional point and digits.  The value is kept as
\* an exact decimal; the inputs have at most six significant digits, where the
\* cast to float keeps distinct decimals distinct.
Atof(s) ==
    LET b == SkipSpaces(s, 1)
        signed == b <= Len(s) /\ s[b] \in {"-", "+"}
        d == IF signed THEN b + 1 ELSE b
        e == DigitRunEnd(s, d)
        point == e <= Len(s) /\ s[e] = "."
        f == IF point THEN DigitRunEnd(s, e + 1) ELSE e
        whole == DigitRunValue(s, d, e)
        frac == IF point THEN DigitRunValue(s, e + 1, f) ELSE 0
        fd == IF point THEN f - (e + 1) ELSE 0
        mag == whole * Pow10(fd) + frac
        any == e > d \/ fd > 0
    IN  IF ~any THEN Decimal(0, 0)
        ELSE Decimal(IF signed /\ s[b] = "-" THEN 0 - mag ELSE mag, fd)

n3dc_obj_string_section_to_float(start, end) == Atof(StringSection(start, end))

n3dc_obj_string_section_to_uint(start, end) ==
    U32(Atoi(StringSection(start, end)))

\* A test that lets every character through, which C13 would not hold of.
n3dc_obj_is_valid_vec_char_any(c) == TRUE

n3dc_obj_is_valid_vec_char(c) == c \in {"-", "."} \/ IsDigit(c)

(***************************************************************************)
(* Diagnostics (the texts of the printf calls)                             *)
(***************************************************************************)
MsgVec3NoX == "Reached end of OBJ vertex/normal line without parsing the x element"
MsgVec3NoY == "Reached end of OBJ vertex/normal line without parsing the y element"
MsgVec3BadChar == "Invalid character encountered when parsing OBJ vertex/normal"
MsgVec3Eof == "Reached end of OBJ file while parsing a vertex/normal"
MsgVec2NoX == "Reached end of OBJ texture coord line without parsing the x element"
MsgVec2BadChar == "Invalid character encountered while parsing OBJ texture coord"
MsgVec2Eof == "Reached end of OBJ file while parsing a texture coord"
MsgGroupNoTexture == "Reached end of OBJ index group without parsing the texture index"
MsgGroupVertexZero == "Vertex index of OBJ index group was either missing or invalid"
MsgGroupTextureZero == "Texture index of OBJ index group was either missing or invalid"
MsgGroupNormalZero == "Normal index of OBJ index group was either missing or invalid"
MsgGroupEof == "Reached end of OBJ file while parsing an index group"
MsgNonTriangulated == "Parsed 3 OBJ index groups in current face without reaching a newline, the OBJ file may have non-triangulated geometry which is not supported by this program, or the OBJ file may be corrupted"
MsgFaceEof == "Reached end of OBJ file while parsing a face"
MsgSeekEof == "Reached end of file while seeking end of line"
MsgMaxVertices == "Exceeded maximum number of vertices while parsing OBJ file"
MsgMaxTextureCoords == "Exceed maximum number of texture coords (max_indices) while parsing OBJ file"
MsgMaxNormals == "Exceeded maximum number of normals while parsing OBJ file"
MsgMaxIndices == "Exceeded maximum number of indices while parsing OBJ file"

(***************************************************************************)
(* Vector scanners.  A result is [ret, line_end, out, msgs]: out holds the *)
(* components written through the pointers, in the order written.          *)
(***************************************************************************)
RECURSIVE Vec3Loop(_, _, _, _, _, _)
Vec3Loop(vec3_start, k, x_parsed, x_end, y_parsed, y_end) ==
    IF k >= file_chars_length
    THEN [ret |-> -1, line_end |-> vec3_start, out |-> <<>>, msgs |-> <<MsgVec3Eof>>]
    ELSE LET current_char == CharAt(k) IN
         IF current_char = " "
         THEN IF ~x_parsed THEN Vec3Loop(vec3_start, k + 1, TRUE, k, y_parsed, y_end)
              ELSE IF ~y_parsed THEN Vec3Loop(vec3_start, k + 1, x_parsed, x_end, TRUE, k)
              ELSE Vec3Loop(vec3_start, k + 1, x_parsed, x_end, y_parsed, y_end)
         ELSE IF current_char = "\n"
         THEN IF ~x_parsed
              THEN [ret |-> -1, line_end |-> vec3_start, out |-> <<>>, msgs |-> <<MsgVec3NoX>>]
              ELSE IF ~y_parsed
              THEN [ret |-> -1, line_end |-> vec3_start, out |-> <<>>, msgs |-> <<MsgVec3NoY>>]
              ELSE [ret |-> 0, line_end |-> k,
                    out |-> <<n3dc_obj_string_section_to_float(vec3_start, x_end),
                              n3dc_obj_string_section_to_float(x_end, y_end),
                              n3dc_obj_string_section_to_float(y_end, k)>>,
                    msgs |-> <<>>]
         ELSE IF ~n3dc_obj_is_valid_vec_char(current_char)
         THEN [ret |-> -1, line_end |-> vec3_start, out |-> <<>>, msgs |-> <<MsgVec3BadChar>>]
         ELSE Vec3Loop(vec3_start, k + 1, x_parsed, x_end, y_parsed, y_end)

n3dc_obj_parse_obj_vec3(vec3_start) == Vec3Loop(vec3_start, vec3_start, FALSE, 0, FALSE, 0)

RECURSIVE Vec2Loop(_, _, _, _)
Vec2Loop(vec2_start, k, x_parsed, x_end) ==
    IF k >= file_chars_length
    THEN [ret |-> -1, line_end |-> vec2_start, out |-> <<>>, msgs |-> <<MsgVec2Eof>>]
    ELSE LET current_char == CharAt(k) IN
         IF current_char = " "
         THEN Vec2Loop(vec2_start, k + 1, TRUE, k)
         ELSE IF current_char = "\n"
         THEN IF ~x_parsed
              THEN [ret |-> -1, line_end |-> vec2_start, out |-> <<>>, msgs |-> <<MsgVec2NoX>>]
              ELSE [ret |-> 0, line_end |-> k,
                    out |-> <<n3dc_obj_string_section_to_float(vec2_start, x_end),
                              n3dc_obj_string_section_to_float(x_end, k)>>,
                    msgs |-> <<>>]
         ELSE IF ~n3dc_obj_is_valid_vec_char(current_char)
         THEN [ret |-> -1, line_end |-> vec2_start, out |-> <<>>, msgs |-> <<MsgVec2BadChar>>]
         ELSE Vec2Loop(vec2_start, k + 1, x_parsed, x_end)

n3dc_obj_parse_obj_vec2(vec2_start) == Vec2Loop(vec2_start, vec2_start, FALSE, 0)

(***************************************************************************)
(* Index-group scanner.  A result is [ret, index_group_end, out, msgs]:    *)
(* out holds the values left in *vertex_index, *texture_index and          *)
(* *normal_index, in that order, as far as the scan wrote them (a          *)
(* component found 0 is stored as 0 before the scan returns -1).           *)
(***************************************************************************)
GroupResult(index_group_start, normal_index_end, vertex_index, texture_index, normal_index) ==
    IF U32IsZero(vertex_index)
    THEN [ret |-> -1, index_group_end |-> index_group_start,
          out |-> <<vertex_index>>, msgs |-> <<MsgGroupVertexZero>>]
    ELSE IF U32IsZero(texture_index)
    THEN [ret |-> -1, index_group_end |-> index_group_start,
          out |-> <<U32Dec(vertex_index), texture_index>>,
          msgs |-> <<MsgGroupTextureZero>>]
    ELSE IF U32IsZero(normal_index)
    THEN [ret |-> -1, index_group_end |-> index_group_start,
          out |-> <<U32Dec(vertex_index), U32Dec(texture_index), normal_index>>,
          msgs |-> <<MsgGroupNormalZero>>]
    ELSE [ret |-> 0, index_group_end |-> normal_index_end,
          out |-> <<U32Dec(vertex_index), U32Dec(texture_index),
                    U32Dec(normal_index)>>,
          msgs |-> <<>>]

GroupConvert(index_group_start, vertex_index_end, texture_index_end, normal_index_end) ==
    GroupResult(index_group_start, normal_index_end,
        n3dc_obj_string_section_to_uint(index_group_start, vertex_index_end),
        n3dc_obj_string_section_to_uint(vertex_index_end + 1, texture_index_end),
        n3dc_obj_string_section_to_uint(texture_index_end + 1, normal_index_end))

RECURSIVE GroupLoop(_, _, _, _, _, _)
GroupLoop(index_group_start, k, vertex_index_parsed, vertex_index_end, texture_index_parsed, texture_index_end) ==
    IF k >= file_chars_length
    THEN [ret |-> -1, index_group_end |-> index_group_start,
          out |-> <<>>, msgs |-> <<MsgGroupEof>>]
    ELSE LET current_char == CharAt(k) IN
         IF current_char = "/"
         THEN IF ~vertex_index_parsed
              THEN GroupLoop(index_group_start, k + 1, TRUE, k,
                             texture_index_parsed, texture_index_end)
              ELSE IF ~texture_index_parsed
              THEN GroupLoop(index_group_start, k + 1, vertex_index_parsed,
                             vertex_index_end, TRUE, k)
              ELSE GroupLoop(index_group_start, k + 1, vertex_index_parsed,
                             vertex_index_end, texture_index_parsed, texture_index_end)
         ELSE IF (current_char = " " \/ current_char = "\n") /\ vertex_index_parsed
         THEN IF ~texture_index_parsed
              THEN [ret |-> -1, index_group_end |-> index_group_start,
                    out |-> <<>>, msgs |-> <<MsgGroupNoTexture>>]
              ELSE GroupConvert(index_group_start, vertex_index_end, texture_index_end, k)
         ELSE GroupLoop(index_group_start, k + 1, vertex_index_parsed,
                        vertex_index_end, texture_index_parsed, texture_index_end)

n3dc_obj_parse_obj_index_group(index_group_start) ==
    GroupLoop(index_group_start, index_group_start, FALSE, 0, FALSE, 0)

(***************************************************************************)
(* Face scanner.  A result is [ret, line_end, out, msgs]: out is the three *)
(* groups' out, one per index slot of the face.  The caller's              *)
(* index_group_end keeps its initial value, the scan's start, when a scan  *)
(* fails, which is what a failed scan's index_group_end says here.         *)
(***************************************************************************)
\* FaceAfterGroup3 without the test of the character that ends the third
\* group: the face scanner C4 would not hold of.
FaceAfterGroup3Accepting(face_start, g1, g2, g3) ==
    [ret |-> 0, line_end |-> g3.index_group_end,
     out |-> <<g1.out, g2.out, g3.out>>, msgs |-> g3.msgs]

FaceAfterGroup3(face_start, g1, g2, g3) ==
    IF CharAt(g3.index_group_end) # "\n"
    THEN [ret |-> -1, line_end |-> face_start, out |-> <<g1.out, g2.out, g3.out>>,
          msgs |-> g3.msgs \o <<MsgNonTriangulated>>]
    ELSE [ret |-> 0, line_end |-> g3.index_group_end,
          out |-> <<g1.out, g2.out, g3.out>>, msgs |-> g3.msgs]

FaceAfterGroup2(face_start, g1, g2) ==
    IF g2.ret # 0
    THEN [ret |-> -1, line_end |-> face_start, out |-> <<g1.out, g2.out, <<>>>>,
          msgs |-> g2.msgs]
    ELSE IF ~(g2.index_group_end < file_chars_length)
    THEN [ret |-> -1, line_end |-> face_start, out |-> <<g1.out, g2.out, <<>>>>,
          msgs |-> <<MsgFaceEof>>]
    ELSE FaceAfterGroup3(face_start, g1, g2,
                         n3dc_obj_parse_obj_index_group(g2.index_group_end))

FaceAfterGroup1(face_start, g1) ==
    IF g1.ret # 0
    THEN [ret |-> -1, line_end |-> face_start, out |-> <<g1.out, <<>>, <<>>>>,
          msgs |-> g1.msgs]
    ELSE IF ~(g1.index_group_end < file_chars_length)
    THEN [ret |-> -1, line_end |-> face_start, out |-> <<g1.out, <<>>, <<>>>>,
          msgs |-> <<MsgFaceEof>>]
    ELSE FaceAfterGroup2(face_start, g1,
                         n3dc_obj_parse_obj_index_group(g1.index_group_end))

n3dc_obj_parse_obj_face(face_start) ==
    IF ~(face_start < file_chars_length)
    THEN [ret |-> -1, line_end |-> face_start, out |-> <<<<>>, <<>>, <<>>>>,
          msgs |-> <<MsgFaceEof>>]
    ELSE FaceAfterGroup1(face_start, n3dc_obj_parse_obj_index_group(face_start))

(***************************************************************************)
(* Skipping a line.  The loop of n3dc_obj_seek_end_of_line tests           *)
(* start_offset, not i, against the length: it ends only at a newline.     *)
(* With no newline left it reads the final '\0' and then past the buffer,  *)
(* which is undefined: the run faults, or it meets a newline byte in the   *)
(* memory behind the buffer and returns that offset.                       *)
(***************************************************************************)
RECURSIVE NewlineFrom(_)
NewlineFrom(k) ==
    IF k >= file_chars_length THEN -1
    ELSE IF CharAt(k) = "\n" THEN k ELSE NewlineFrom(k + 1)

MaxOverrun == 1

SeekOverruns(start_offset) ==
    start_offset < file_chars_length /\ NewlineFrom(start_offset) = -1

n3dc_obj_seek_end_of_line(start_offset) ==
    IF ~(start_offset < file_chars_length)
    THEN {[ret |-> -1, line_end |-> start_offset, msgs |-> <<MsgSeekEof>>]}
    ELSE IF NewlineFrom(start_offset) # -1
    THEN {[ret |-> 0, line_end |-> NewlineFrom(start_offset), msgs |-> <<>>]}
    ELSE {[ret |-> 0, line_end |-> file_chars_length + k, msgs |-> <<>>] : k \in 1..MaxOverrun}

(***************************************************************************)
(* Memory.  A float or index array is a function from the offsets written  *)
(* so far to their values; an offset outside its domain was never written. *)
(***************************************************************************)
Empty == [k \in {} |-> 0]

Put(arr, k, v) == [x \in DOMAIN arr \cup {k} |-> IF x = k THEN v ELSE arr[x]]

Put2(arr, k, out) == Put(Put(arr, k, out[1]), k + 1, out[2])

Put3(arr, k, out) == Put(Put(Put(arr, k, out[1]), k + 1, out[2]), k + 2, out[3])

\* What an index-group scan left in the slot of one index array: which is 1
\* for the vertex index, 2 for the texture index, 3 for the normal index.
PutIndex(arr, slot, out, which) ==
    IF Len(out) >= which THEN Put(arr, slot, out[which]) ELSE arr

PutFace(arr, first_slot, out, which) ==
    PutIndex(PutIndex(PutIndex(arr, first_slot, out[1], which),
                      first_slot + 1, out[2], which),
             first_slot + 2, out[3], which)

RawBuffers == {"file_chars", "vertices", "texture_coords", "normals",
               "vertex_indices", "texture_indices", "normal_indices"}

OutputBuffers == {"ordered_vertices", "ordered_texture_coords", "ordered_normals"}

Buffers == RawBuffers \cup OutputBuffers \cup {"obj"}

NoReturn == "no return"

NULL == "NULL"

Malloc(names) == [b \in Buffers |-> IF b \in names THEN mallocs[b] + 1 ELSE mallocs[b]]

Free(names) == [b \in Buffers |-> IF b \in names THEN frees[b] + 1 ELSE frees[b]]

(***************************************************************************)
(* The driver loop of n3dc_obj_load: one action per branch of the line     *)
(* classifier.  A break leaves the loop for the test of error at "exit".   *)
(***************************************************************************)
\* Two other tests: one that lets a record past its maximum, which C2 would
\* not hold of, and one that never aborts, which C3 would not hold of.
ExceedsMaximumOffByOne(parsed, maximum) == parsed > maximum + 1

ExceedsMaximumNever(parsed, maximum) == FALSE

\* The test each record branch makes after counting its record.
ExceedsMaximum(parsed, maximum) == parsed > maximum

\* Resuming one character early, at the character the classifier takes for
\* last_char: C1 would not hold of a loop that resumes there.
NextLineOffsetShort(line_end) == line_end + 1

\* Where the loop resumes after a line that ended at line_end.
NextLineOffset(line_end) == line_end + 2

InLoop == pc = "loop" /\ current_char_offset < file_chars_length

last_char == CharAt(current_char_offset - 1)

current_char == CharAt(current_char_offset)

IsVertexLine == last_char = "v" /\ current_char = " "

IsTextureCoordLine == last_char = "v" /\ current_char = "t"

IsNormalLine == last_char = "v" /\ current_char = "n"

\* A classifier that takes a face line only once a position is stored, which
\* C18 would not hold of.
IsFaceLineAfterPositions ==
    last_char = "f" /\ current_char = " " /\ DOMAIN vertices # {}

IsFaceLine == last_char = "f" /\ current_char = " "

ScanVars == <<vertices, vertex_offset, parsed_vertices,
              texture_coords, texture_coord_offset, parsed_texture_coords,
              normals, normal_offset, parsed_normals,
              vertex_indices, texture_indices, normal_indices,
              parsed_indices, index_offset>>

InputVars == <<file_chars, max_vertices, max_normals, max_indices>>

OutputVars == <<ordered_vertices, ordered_texture_coords, ordered_normals, i>>

ExitVars == <<mallocs, frees, obj, result>>

DispatchVertex ==
    /\ InLoop
    /\ IsVertexLine
    /\ parsed_vertices' = parsed_vertices + 1
    /\ IF ExceedsMaximum(parsed_vertices + 1, max_vertices)
       THEN /\ stdout' = Append(stdout, MsgMaxVertices)
            /\ error' = 1
            /\ pc' = "exit"
            /\ UNCHANGED <<current_char_offset, vertices, vertex_offset>>
       ELSE LET r == n3dc_obj_parse_obj_vec3(current_char_offset + 1) IN
            /\ vertex_offset' = vertex_offset + 3
            /\ stdout' = stdout \o r.msgs
            /\ error' = r.ret
            /\ IF r.ret # 0
               THEN /\ pc' = "exit"
                    /\ current_char_offset' = current_char_offset + 1
                    /\ UNCHANGED vertices
               ELSE /\ pc' = "loop"
                    /\ current_char_offset' = NextLineOffset(r.line_end)
                    /\ vertices' = Put3(vertices, vertex_offset, r.out)
    /\ UNCHANGED <<texture_coords, texture_coord_offset, parsed_texture_coords,
                   normals, normal_offset, parsed_normals,
                   vertex_indices, texture_indices, normal_indices,
                   parsed_indices, index_offset>>
    /\ UNCHANGED <<InputVars, OutputVars, ExitVars>>

DispatchTextureCoord ==
    /\ InLoop
    /\ ~IsVertexLine
    /\ IsTextureCoordLine
    /\ parsed_texture_coords' = parsed_texture_coords + 1
    /\ IF ExceedsMaximum(parsed_texture_coords + 1, max_indices)
       THEN /\ stdout' = Append(stdout, MsgMaxTextureCoords)
            /\ error' = -1
            /\ pc' = "exit"
            /\ UNCHANGED <<current_char_offset, texture_coords, texture_coord_offset>>
       ELSE LET r == n3dc_obj_parse_obj_vec2(current_char_offset + 2) IN
            /\ texture_coord_offset' = texture_coord_offset + 2
            /\ stdout' = stdout \o r.msgs
            /\ error' = r.ret
            /\ IF r.ret # 0
               THEN /\ pc' = "exit"
                    /\ current_char_offset' = current_char_offset + 2
                    /\ UNCHANGED texture_coords
               ELSE /\ pc' = "loop"
                    /\ current_char_offset' = NextLineOffset(r.line_end)
                    /\ texture_coords' = Put2(texture_coords, texture_coord_offset, r.out)
    /\ UNCHANGED <<vertices, vertex_offset, parsed_vertices,
                   normals, normal_offset, parsed_normals,
                   vertex_indices, texture_indices, normal_indices,
                   parsed_indices, index_offset>>
    /\ UNCHANGED <<InputVars, OutputVars, ExitVars>>

DispatchNormal ==
    /\ InLoop
    /\ ~IsVertexLine /\ ~IsTextureCoordLine
    /\ IsNormalLine
    /\ parsed_normals' = parsed_normals + 1
    /\ IF ExceedsMaximum(parsed_normals + 1, max_normals)
       THEN /\ stdout' = Append(stdout, MsgMaxNormals)
            /\ error' = 1
            /\ pc' = "exit"
            /\ UNCHANGED <<current_char_offset, normals, normal_offset>>
       ELSE LET r == n3dc_obj_parse_obj_vec3(current_char_offset + 2) IN
            /\ normal_offset' = normal_offset + 3
            /\ stdout' = stdout \o r.msgs
            /\ error' = r.ret
            /\ IF r.ret # 0
               THEN /\ pc' = "exit"
                    /\ current_char_offset' = current_char_offset + 2
                    /\ UNCHANGED normals
               ELSE /\ pc' = "loop"
                    /\ current_char_offset' = NextLineOffset(r.line_end)
                    /\ normals' = Put3(normals, normal_offset, r.out)
    /\ UNCHANGED <<vertices, vertex_offset, parsed_vertices,
                   texture_coords, texture_coord_offset, parsed_texture_coords,
                   vertex_indices, texture_indices, normal_indices,
                   parsed_indices, index_offset>>
    /\ UNCHANGED <<InputVars, OutputVars, ExitVars>>

\* The part of the face branch after the scan returned r.
StoreFace(r) ==
    /\ index_offset' = index_offset + 3
    /\ stdout' = stdout \o r.msgs
    /\ error' = r.ret
    /\ vertex_indices' = PutFace(vertex_indices, index_offset, r.out, 1)
    /\ texture_indices' = PutFace(texture_indices, index_offset, r.out, 2)
    /\ normal_indices' = PutFace(normal_indices, index_offset, r.out, 3)
    /\ IF r.ret # 0
       THEN /\ pc' = "exit"
            /\ UNCHANGED current_char_offset
       ELSE /\ pc' = "loop"
            /\ current_char_offset' = NextLineOffset(r.line_end)

DispatchFace ==
    /\ InLoop
    /\ ~IsVertexLine /\ ~IsTextureCoordLine /\ ~IsNormalLine
    /\ IsFaceLine
    /\ parsed_indices' = parsed_indices + 3
    /\ IF ExceedsMaximum(parsed_indices + 3, max_indices)
       THEN /\ stdout' = Append(stdout, MsgMaxIndices)
            /\ error' = 1
            /\ pc' = "exit"
            /\ UNCHANGED <<current_char_offset, index_offset,
                           vertex_indices, texture_indices, normal_indices>>
       ELSE StoreFace(n3dc_obj_parse_obj_face(current_char_offset))
    /\ UNCHANGED <<vertices, vertex_offset, parsed_vertices,
                   texture_coords, texture_coord_offset, parsed_texture_coords,
                   normals, normal_offset, parsed_normals>>
    /\ UNCHANGED <<InputVars, OutputVars, ExitVars>>

SkipLine ==
    /\ InLoop
    /\ ~IsVertexLine /\ ~IsTextureCoordLine /\ ~IsNormalLine /\ ~IsFaceLine
    /\ \E r \in n3dc_obj_seek_end_of_line(current_char_offset) :
          /\ stdout' = stdout \o r.msgs
          /\ error' = r.ret
          /\ IF r.ret # 0
             THEN pc' = "exit" /\ UNCHANGED current_char_offset
             ELSE pc' = "loop" /\ current_char_offset' = NextLineOffset(r.line_end)
    /\ UNCHANGED <<ScanVars, InputVars, OutputVars, ExitVars>>

\* The fault outcome of the read past the buffer.
SkipLineFault ==
    /\ InLoop
    /\ ~IsVertexLine /\ ~IsTextureCoordLine /\ ~IsNormalLine /\ ~IsFaceLine
    /\ SeekOverruns(current_char_offset)
    /\ pc' = "fault"
    /\ UNCHANGED <<current_char_offset, error, stdout,
                   ScanVars, InputVars, OutputVars, ExitVars>>

LoopEnd ==
    /\ pc = "loop"
    /\ ~(current_char_offset < file_chars_length)
    /\ pc' = "exit"
    /\ UNCHANGED <<current_char_offset, error, stdout,
                   ScanVars, InputVars, OutputVars, ExitVars>>

(***************************************************************************)
(* After the loop: the failure exit, the resolver pass, the success exit.  *)
(***************************************************************************)
\* A failure exit that keeps the source buffer, which C10 would not hold of.
FreedOnFailureLeaky == RawBuffers \ {"file_chars"}

\* The buffers the failure exit and the success exit free.
FreedOnFailure == RawBuffers

FreedOnSuccess == RawBuffers

\* An exit that goes on to the resolver pass with the error set, which C16
\* would not hold of.
FailExitResolving ==
    /\ pc = "exit"
    /\ error # 0
    /\ mallocs' = Malloc(OutputBuffers)
    /\ i' = 0
    /\ pc' = "resolve"
    /\ UNCHANGED <<frees, obj, result, current_char_offset, error, stdout,
                   ScanVars, InputVars,
                   ordered_vertices, ordered_texture_coords, ordered_normals>>

FailExit ==
    /\ pc = "exit"
    /\ error # 0
    /\ frees' = Free(FreedOnFailure)
    /\ result' = NULL
    /\ pc' = "done"
    /\ UNCHANGED <<mallocs, obj, current_char_offset, error, stdout,
                   ScanVars, InputVars, OutputVars>>

AllocOutputs ==
    /\ pc = "exit"
    /\ error = 0
    /\ mallocs' = Malloc(OutputBuffers)
    /\ i' = 0
    /\ pc' = "resolve"
    /\ UNCHANGED <<frees, obj, result, current_char_offset, error, stdout,
                   ScanVars, InputVars,
                   ordered_vertices, ordered_texture_coords, ordered_normals>>

\* The content of memory no parsed record wrote: whatever the allocator left.
Indeterminate == <<"indeterminate">>

\* index * width in unsigned int, and the offsets after it.
ScaledOffset(index, width) ==
    IF index = Indeterminate THEN Indeterminate ELSE U32Mul(index, width)

OffsetPlus(offset, k) ==
    IF offset = Indeterminate THEN Indeterminate ELSE U32Add(offset, k)

ReadIndex(arr, k) == IF k \in DOMAIN arr THEN arr[k] ELSE Indeterminate

ReadFloat(pool, offset) ==
    IF offset = Indeterminate THEN Indeterminate
    ELSE IF U32IsInt(offset) /\ U32Int(offset) \in DOMAIN pool
    THEN pool[U32Int(offset)] ELSE Indeterminate

\* A read at an offset outside the allocation of `size` floats may fault.
MayFault(offset, size) ==
    IF offset = Indeterminate THEN TRUE
    ELSE IF ~U32IsInt(offset) THEN TRUE
    ELSE U32Int(offset) >= size

\* Resolving every corner through the first corner's vertex index, which C8
\* would not hold of.
ResolveVertexOffsetFirst == ScaledOffset(ReadIndex(vertex_indices, 0), 3)

ResolveVertexOffset == ScaledOffset(ReadIndex(vertex_indices, i), 3)

ResolveTextureCoordOffset == ScaledOffset(ReadIndex(texture_indices, i), 2)

ResolveNormalOffset == ScaledOffset(ReadIndex(normal_indices, i), 3)

\* The reads of one pass of the resolver loop: <<offset, floats allocated>>.
CornerReads ==
    {<<OffsetPlus(ResolveVertexOffset, k), max_vertices * 3>> : k \in 0..2}
    \cup {<<OffsetPlus(ResolveTextureCoordOffset, k), max_indices * 2>> : k \in 0..1}
    \cup {<<OffsetPlus(ResolveNormalOffset, k), max_normals * 3>> : k \in 0..2}

CornerMayFault == \E r \in CornerReads : MayFault(r[1], r[2])

Gather3(pool, offset) ==
    <<ReadFloat(pool, offset), ReadFloat(pool, OffsetPlus(offset, 1)),
      ReadFloat(pool, OffsetPlus(offset, 2))>>

Gather2(pool, offset) ==
    <<ReadFloat(pool, offset), ReadFloat(pool, OffsetPlus(offset, 1))>>

ResolveCorner ==
    /\ pc = "resolve"
    /\ i < parsed_indices
    /\ vertex_offset' = ResolveVertexOffset
    /\ ordered_vertices' = Put3(ordered_vertices, i * 3, Gather3(vertices, ResolveVertexOffset))
    /\ texture_coord_offset' = ResolveTextureCoordOffset
    /\ ordered_texture_coords' =
          Put2(ordered_texture_coords, i * 2, Gather2(texture_coords, ResolveTextureCoordOffset))
    /\ normal_offset' = ResolveNormalOffset
    /\ ordered_normals' = Put3(ordered_normals, i * 3, Gather3(normals, ResolveNormalOffset))
    /\ i' = i + 1
    /\ UNCHANGED <<pc, current_char_offset, error, stdout, InputVars, ExitVars,
                   vertices, parsed_vertices, texture_coords, parsed_texture_coords,
                   normals, parsed_normals,
                   vertex_indices, texture_indices, normal_indices,
                   parsed_indices, index_offset>>

\* The fault outcome of a corner's reads outside the raw pools.
ResolveFault ==
    /\ pc = "resolve"
    /\ i < parsed_indices
    /\ CornerMayFault
    /\ pc' = "fault"
    /\ UNCHANGED <<current_char_offset, error, stdout,
                   ScanVars, InputVars, OutputVars, ExitVars>>

SuccessExit ==
    /\ pc = "resolve"
    /\ ~(i < parsed_indices)
    /\ frees' = Free(FreedOnSuccess)
    /\ mallocs' = Malloc({"obj"})
    /\ obj' = [num_vertices |-> parsed_indices,
               vertices |-> "ordered_vertices",
               normals |-> "ordered_normals",
               texture_coords |-> "ordered_texture_coords"]
    /\ result' = "obj"
    /\ pc' = "done"
    /\ UNCHANGED <<current_char_offset, error, stdout,
                   ScanVars, InputVars, OutputVars>>

(***************************************************************************)
(* Inputs: source buffers built from whole lines and line fragments, and   *)
(* the three capacities.                                                   *)
(***************************************************************************)
RECURSIVE Concat(_)
Concat(chunks) == IF chunks = <<>> THEN <<>> ELSE Head(chunks) \o Concat(Tail(chunks))

LineV1 == <<"v", " ", "0", " ", "1", " ", "2", "\n">>

LineV2 == <<"v", " ", "3", " ", "4", " ", "5", "\n">>

LineVT1 == <<"v", "t", " ", "0", ".", "5", " ", "0", ".", "5", "\n">>

LineVN1 == <<"v", "n", " ", "0", " ", "0", " ", "1", "\n">>

\* One record of each pool.
Pools == LineV1 \o LineVT1 \o LineVN1

LineF1 == <<"f", " ", "1", "/", "1", "/", "1", " ", "1", "/", "1", "/", "1", " ",
            "1", "/", "1", "/", "1", "\n">>

LineF2 == <<"f", " ", "2", "/", "1", "/", "1", " ", "1", "/", "1", "/", "1", " ",
            "1", "/", "1", "/", "1", "\n">>

LineComment == <<"#", " ", "c", "\n">>

LineEmpty == <<"\n">>

LineBadVertex == <<"v", " ", "0", " ", "x", " ", "2", "\n">>

\* A comment the file ends in before its newline.
FragmentComment == <<"#">>

Chunks == {Pools, LineV2, LineVT1, LineVN1, LineF1, LineF2,
           LineComment, LineEmpty, LineBadVertex, FragmentComment}

MaxChunks == 3

ChunkFiles == UNION {{Concat(cs) : cs \in [1..n -> Chunks]} : n \in 0..MaxChunks}

\* (max_vertices, max_normals, max_indices)
ChunkCapacities == {<<1, 1, 3>>, <<2, 2, 6>>, <<2, 1, 1>>}

Group111 == <<"1", "/", "1", "/", "1">>

Group321 == <<"3", "/", "2", "/", "1">>

GroupV == <<"1">>

GroupVT == <<"1", "/", "1">>

GroupVN == <<"1", "/", "/", "1">>

GroupVTSlash == <<"1", "/", "1", "/">>

Groups == {Group111, Group321, GroupV, GroupVT, GroupVN, GroupVTSlash}

MaxGroups == 4

FaceLine(gs) == <<"f">> \o Concat([k \in 1..Len(gs) |-> <<" ">> \o gs[k]]) \o <<"\n">>

FaceLines == UNION {{FaceLine(gs) : gs \in [1..n -> Groups]} : n \in 1..MaxGroups}

\* What follows the face line: nothing, or a line that is one index group.
FaceTails == {<<>>, Group111 \o <<"\n">>}

FaceFiles == {Pools \o f \o t : f \in FaceLines, t \in FaceTails}

FaceCapacities == {<<2, 2, 3>>}

\* Faces of three groups whose components are 0, 1 or long digit strings.
GroupZero11 == <<"0", "/", "1", "/", "1">>

Group101 == <<"1", "/", "0", "/", "1">>

Group110 == <<"1", "/", "1", "/", "0">>

GroupLongV == <<"1", "2", "3", "4", "5", "6", "7", "8", "9", "0", "/", "1", "/", "1">>

GroupLongT == <<"1", "/", "1", "2", "3", "4", "5", "6", "7", "8", "9", "0", "1", "/", "1">>

DigitGroups == {Group111, GroupZero11, Group101, Group110, GroupLongV, GroupLongT}

DigitFiles == {Pools \o FaceLine(gs) : gs \in [1..3 -> DigitGroups]}

\* Faces of three groups with a sign, a letter or a third '/' in a component.
GroupMinus == <<"-", "1", "/", "1", "/", "1">>

GroupLetter == <<"1", "x", "/", "1", "/", "1">>

GroupFourth == <<"1", "/", "1", "/", "1", "/", "1">>

CharGroups == {Group111, GroupMinus, GroupLetter, GroupFourth}

CharFiles == {Pools \o FaceLine(gs) : gs \in [1..3 -> CharGroups]}

\* Vector lines with a letter in or after their components.
LineBadVertexEnd == <<"v", " ", "0", " ", "1", " ", "2", "x", "\n">>

LineBadTextureCoord == <<"v", "t", " ", "0", ".", "5", " ", "x", "\n">>

LineBadTextureCoordEnd == <<"v", "t", " ", "0", ".", "5", " ", "0", ".", "5", " ", "x", "\n">>

LineBadNormal == <<"v", "n", " ", "x", " ", "0", " ", "1", "\n">>

LineBadNormalEnd == <<"v", "n", " ", "0", " ", "0", " ", "1", " ", "x", "\n">>

BadLines == {LineBadVertex, LineBadVertexEnd, LineBadTextureCoord,
             LineBadTextureCoordEnd, LineBadNormal, LineBadNormalEnd}

BadFiles == {Pools \o l \o LineF1 : l \in BadLines}

\* Vector lines with a further field after their components.
LineV4 == <<"v", " ", "0", " ", "1", " ", "2", " ", "9", "\n">>

LineVT3 == <<"v", "t", " ", "0", ".", "5", " ", "0", ".", "2", "5", " ", "0", "\n">>

SpacedFiles == {LineV4 \o LineVT3 \o LineVN1 \o LineF1, LineVT3}

Inputs == (ChunkFiles \X ChunkCapacities)
          \cup (FaceFiles \X FaceCapacities)
          \cup (DigitFiles \X FaceCapacities)
          \cup (CharFiles \X FaceCapacities)
          \cup (BadFiles \X FaceCapacities)
          \cup (SpacedFiles \X FaceCapacities)

Init ==
    /\ \E in \in Inputs :
          /\ file_chars = in[1]
          /\ max_vertices = in[2][1]
          /\ max_normals = in[2][2]
          /\ max_indices = in[2][3]
    /\ current_char_offset = 1
    /\ vertices = Empty /\ vertex_offset = 0 /\ parsed_vertices = 0
    /\ texture_coords = Empty /\ texture_coord_offset = 0 /\ parsed_texture_coords = 0
    /\ normals = Empty /\ normal_offset = 0 /\ parsed_normals = 0
    /\ vertex_indices = Empty /\ texture_indices = Empty /\ normal_indices = Empty
    /\ parsed_indices = 0 /\ index_offset = 0
    /\ error = 0
    /\ ordered_vertices = Empty /\ ordered_texture_coords = Empty
    /\ ordered_normals = Empty
    /\ i = 0
    /\ mallocs = [b \in Buffers |-> IF b \in RawBuffers THEN 1 ELSE 0]
    /\ frees = [b \in Buffers |-> 0]
    /\ stdout = <<>>
    /\ obj = [num_vertices |-> 0, vertices |-> NULL, normals |-> NULL,
              texture_coords |-> NULL]
    /\ result = NoReturn
    /\ pc = "loop"

Next ==
    \/ DispatchVertex
    \/ DispatchTextureCoord
    \/ DispatchNormal
    \/ DispatchFace
    \/ SkipLine
    \/ SkipLineFault
    \/ LoopEnd
    \/ FailExit
    \/ AllocOutputs
    \/ ResolveCorner
    \/ ResolveFault
    \/ SuccessExit

Spec == Init /\ [][Next]_vars

(***************************************************************************)
(* The input as text: lines, tokens and the lexical forms of section 6 of  *)
(* the format description, read off the characters without the scanners.   *)
(***************************************************************************)
RECURSIVE FindChar(_, _, _)
FindChar(s, c, k) ==
    IF k > Len(s) THEN k ELSE IF s[k] = c THEN k ELSE FindChar(s, c, k + 1)

\* The pieces of s between occurrences of c, from index `from` on.
RECURSIVE Pieces(_, _, _)
Pieces(s, c, from) ==
    LET e == FindChar(s, c, from) IN
    IF e > Len(s) THEN <<SubSeq(s, from, Len(s))>>
    ELSE <<SubSeq(s, from, e - 1)>> \o Pieces(s, c, e + 1)

AllButLast(s) == SubSeq(s, 1, Len(s) - 1)

FilePieces == Pieces(file_chars, "\n", 1)

\* Every line ends in a newline: nothing follows the last newline.
NewlineTerminated == FilePieces[Len(FilePieces)] = <<>>

TextLines == AllButLast(FilePieces)

Tokens(line) == SelectSeq(Pieces(line, " ", 1), LAMBDA t : t # <<>>)

IsDigitString(s) == Len(s) > 0 /\ \A k \in 1..Len(s) : IsDigit(s[k])

DigitStringValue(s) == DigitRunValue(s, 1, Len(s) + 1)

\* [-]digits[.digits]
IsFloatLexeme(s) ==
    /\ Len(s) > 0
    /\ LET t == IF s[1] = "-" THEN Tail(s) ELSE s
           parts == Pieces(t, ".", 1)
       IN  Len(parts) \in {1, 2} /\ \A k \in 1..Len(parts) : IsDigitString(parts[k])

Components(token) == Pieces(token, "/", 1)

\* digits/digits/digits
IsDigitTriple(token) ==
    /\ Len(Components(token)) = 3
    /\ \A k \in 1..3 : IsDigitString(Components(token)[k])

\* A triple of 1-based indices, short enough to be converted whole.
IsIndexTriple(token) ==
    /\ IsDigitTriple(token)
    /\ \A k \in 1..3 : /\ Len(Components(token)[k]) < CHAR_BUDGET
                       /\ DigitStringValue(Components(token)[k]) >= 1

HasTag(line, a, b) == Len(line) >= 2 /\ line[1] = a /\ line[2] = b

\* The fields of a record line after its tag and one space.
Fields(line, tag_length) == Pieces(SubSeq(line, tag_length + 2, Len(line)), " ", 1)

IsFloatRecord(line, tag_length, count) ==
    /\ Len(line) > tag_length /\ line[tag_length + 1] = " "
    /\ Len(Fields(line, tag_length)) = count
    /\ \A k \in 1..count : IsFloatLexeme(Fields(line, tag_length)[k])

IsVertexRecord(line) == HasTag(line, "v", " ") /\ IsFloatRecord(line, 1, 3)

IsTextureCoordRecord(line) == HasTag(line, "v", "t") /\ IsFloatRecord(line, 2, 2)

IsNormalRecord(line) == HasTag(line, "v", "n") /\ IsFloatRecord(line, 2, 3)

IsFaceRecord(line) ==
    /\ HasTag(line, "f", " ")
    /\ Len(Fields(line, 1)) = 3
    /\ \A k \in 1..3 : IsIndexTriple(Fields(line, 1)[k])

IsIgnorableLine(line) ==
    /\ Len(line) >= 1
    /\ ~HasTag(line, "v", " ") /\ ~HasTag(line, "v", "t")
    /\ ~HasTag(line, "v", "n") /\ ~HasTag(line, "f", " ")

LinesWhere(P(_)) == SelectSeq(TextLines, P)

WellFormedInput ==
    /\ NewlineTerminated
    /\ \A k \in 1..Len(TextLines) :
          LET line == TextLines[k] IN
          IF HasTag(line, "v", " ") THEN IsVertexRecord(line)
          ELSE IF HasTag(line, "v", "t") THEN IsTextureCoordRecord(line)
          ELSE IF HasTag(line, "v", "n") THEN IsNormalRecord(line)
          ELSE IF HasTag(line, "f", " ") THEN IsFaceRecord(line)
          ELSE Len(line) >= 1

VertexRecords == LinesWhere(IsVertexRecord)

TextureCoordRecords == LinesWhere(IsTextureCoordRecord)

NormalRecords == LinesWhere(IsNormalRecord)

FaceRecords == LinesWhere(IsFaceRecord)

WithinCapacities ==
    /\ Len(VertexRecords) <= max_vertices
    /\ Len(NormalRecords) <= max_normals
    /\ Len(TextureCoordRecords) <= max_indices
    /\ 3 * Len(FaceRecords) <= max_indices

\* The 1-based index that corner g of face record f gives for pool `which`.
SourceIndex(f, g, which) ==
    DigitStringValue(Components(Fields(FaceRecords[f], 1)[g])[which])

ReferencesResolve ==
    \A f \in 1..Len(FaceRecords) : \A g \in 1..3 :
        /\ SourceIndex(f, g, 1) <= Len(VertexRecords)
        /\ SourceIndex(f, g, 2) <= Len(TextureCoordRecords)
        /\ SourceIndex(f, g, 3) <= Len(NormalRecords)

Returned == pc = "done"

Succeeded == pc = "done" /\ result = "obj"

\* The corners an output array of `width` floats per corner holds.
CornersHeld(arr, width) ==
    IF \E n \in 0..max_indices : DOMAIN arr = 0..(n * width - 1)
    THEN CHOOSE n \in 0..max_indices : DOMAIN arr = 0..(n * width - 1)
    ELSE -1

(***************************************************************************)
(* C1: for an input of newline-terminated, well-formed v / vt / vn / f     *)
(* lines and non-empty ignorable lines, with F face lines, within the      *)
(* capacities and with every face index naming a record of the file, the   *)
(* load never fails or faults, and it returns an n3dc_obj_t whose          *)
(* num_vertices is 3F, each output array holding one entry per corner.     *)
(***************************************************************************)
C1_WellFormedCase == WellFormedInput /\ WithinCapacities /\ ReferencesResolve

\* Only a state with an error, a fault or a return can fall short of it.
C1_CornerCount ==
    (error # 0 \/ pc = "fault" \/ Returned) =>
        (C1_WellFormedCase =>
            /\ error = 0
            /\ pc # "fault"
            /\ result = "obj"
            /\ obj.num_vertices = 3 * Len(FaceRecords)
            /\ CornersHeld(ordered_vertices, 3) = 3 * Len(FaceRecords)
            /\ CornersHeld(ordered_texture_coords, 2) = 3 * Len(FaceRecords)
            /\ CornersHeld(ordered_normals, 3) = 3 * Len(FaceRecords))

C1_Witness ==
    /\ C1_WellFormedCase
    /\ Succeeded
    /\ Len(FaceRecords) = 2
    /\ obj.num_vertices = 6

\* Once the loop is left with an error, the next step returns NULL.
ErrorReturnsNull == (pc = "exit" /\ error # 0) => (pc' = "done" /\ result' = NULL)

\* The step leaves the loop with an error and without a write to a raw array.
AbortsUnwritten ==
    /\ pc' = "exit" /\ error' # 0
    /\ UNCHANGED <<vertices, texture_coords, normals,
                   vertex_indices, texture_indices, normal_indices>>

(***************************************************************************)
(* C2: a position record dispatched when max_vertices are counted, a       *)
(* normal record dispatched when max_normals are counted, and a face       *)
(* record that would bring the corner count above max_indices, each end    *)
(* the loop with an error and no write, the load then returns NULL, and a  *)
(* successful load has counted no record beyond a maximum.                 *)
(***************************************************************************)
C2_CapacityAborts ==
    [][ /\ (InLoop /\ IsVertexLine /\ parsed_vertices >= max_vertices)
              => (AbortsUnwritten /\ stdout' = Append(stdout, MsgMaxVertices))
        /\ (InLoop /\ IsNormalLine /\ parsed_normals >= max_normals)
              => (AbortsUnwritten /\ stdout' = Append(stdout, MsgMaxNormals))
        /\ (InLoop /\ IsFaceLine /\ parsed_indices + 3 > max_indices)
              => (AbortsUnwritten /\ stdout' = Append(stdout, MsgMaxIndices))
        /\ ErrorReturnsNull
        /\ (pc' = "done" /\ result' = "obj")
              => /\ parsed_vertices' <= max_vertices
                 /\ parsed_normals' <= max_normals
                 /\ parsed_indices' <= max_indices
                 /\ parsed_vertices' * 3 = Cardinality(DOMAIN vertices')
                 /\ parsed_normals' * 3 = Cardinality(DOMAIN normals')
      ]_vars

C2_Witness ==
    /\ Returned /\ result = NULL
    /\ parsed_vertices = max_vertices + 1
    /\ Cardinality(DOMAIN vertices) = max_vertices * 3
    /\ stdout = <<MsgMaxVertices>>

(***************************************************************************)
(* C3: in every state the offsets written in the position pool lie below   *)
(* max_vertices records, in the normal pool below max_normals records, in  *)
(* the texture-coordinate pool below max_indices records, and in the three *)
(* raw index arrays below max_indices entries.                             *)
(***************************************************************************)
C3_WritesWithinCapacity ==
    /\ DOMAIN vertices \subseteq 0..(max_vertices * 3 - 1)
    /\ DOMAIN normals \subseteq 0..(max_normals * 3 - 1)
    /\ DOMAIN texture_coords \subseteq 0..(max_indices * 2 - 1)
    /\ DOMAIN vertex_indices \subseteq 0..(max_indices - 1)
    /\ DOMAIN texture_indices \subseteq 0..(max_indices - 1)
    /\ DOMAIN normal_indices \subseteq 0..(max_indices - 1)

\* Every raw pool is full and a further texture coordinate was turned away.
C3_Witness ==
    /\ DOMAIN vertices = 0..(max_vertices * 3 - 1)
    /\ DOMAIN normals = 0..(max_normals * 3 - 1)
    /\ DOMAIN texture_coords = 0..(max_indices * 2 - 1)
    /\ parsed_texture_coords > max_indices
    /\ error # 0

(***************************************************************************)
(* C4: when the face scanner, within capacity, has scanned two index       *)
(* groups and the third ends at a space (as on every face line of four     *)
(* index groups whose first three are complete), the scanner fails, its    *)
(* last diagnostic is the non-triangulated one, and the load returns NULL. *)
(***************************************************************************)
ThirdGroupEnd(g1) ==
    IF g1.ret # 0 THEN -1
    ELSE LET g2 == n3dc_obj_parse_obj_index_group(g1.index_group_end) IN
         IF g2.ret # 0 THEN -1
         ELSE n3dc_obj_parse_obj_index_group(g2.index_group_end).index_group_end

ThirdGroupEndsAtSpace ==
    LET e == ThirdGroupEnd(n3dc_obj_parse_obj_index_group(current_char_offset))
    IN  e # -1 /\ CharAt(e) = " "

\* The line the loop is classifying, without its newline.
CurrentLine ==
    SubSeq(file_chars, current_char_offset, NewlineFrom(current_char_offset))

CurrentLineEnds == NewlineFrom(current_char_offset) # -1

IsFourGroupLine(line) ==
    /\ HasTag(line, "f", " ")
    /\ Len(Tokens(line)) >= 5
    /\ \A k \in 2..4 : IsIndexTriple(Tokens(line)[k])

C4_NonTriangulated ==
    [][ /\ (/\ InLoop /\ IsFaceLine /\ parsed_indices + 3 <= max_indices
            /\ IF ThirdGroupEndsAtSpace THEN TRUE
               ELSE CurrentLineEnds /\ IsFourGroupLine(CurrentLine))
              => /\ pc' = "exit" /\ error' # 0
                 /\ stdout'[Len(stdout')] = MsgNonTriangulated
        /\ ErrorReturnsNull
      ]_vars

C4_Witness ==
    /\ Returned /\ result = NULL
    /\ stdout = <<MsgNonTriangulated>>
    /\ \E k \in 1..Len(TextLines) :
          /\ IsFourGroupLine(TextLines[k])
          /\ Len(Tokens(TextLines[k])) = 5
          /\ IsIndexTriple(Tokens(TextLines[k])[5])

(***************************************************************************)
(* C5: a face line with other than exactly three index groups before its   *)
(* newline makes the load return NULL: the step that scans it ends the     *)
(* loop with an error, whatever follows the line.                          *)
(***************************************************************************)
GroupsOnLine(line) == Len(Tokens(line)) - 1

C5_ThreeGroupsOnly ==
    [][ /\ (InLoop /\ IsFaceLine /\ CurrentLineEnds /\ GroupsOnLine(CurrentLine) # 3)
              => (pc' = "exit" /\ error' # 0)
        /\ ErrorReturnsNull
      ]_vars

(***************************************************************************)
(* C6: a face line in which an index group has the form v, v/vt, v//vn or  *)
(* v/vt/ makes the load return NULL: the step that scans it ends the loop  *)
(* with an error, whatever follows the line.                               *)
(***************************************************************************)
IsIncompleteGroup(token) ==
    LET c == Components(token) IN
    IF Len(c) = 1 THEN IsDigitString(c[1])
    ELSE IF Len(c) = 2 THEN IsDigitString(c[1]) /\ IsDigitString(c[2])
    ELSE IF Len(c) = 3
    THEN /\ IsDigitString(c[1])
         /\ IF c[2] = <<>> THEN IsDigitString(c[3])
            ELSE IsDigitString(c[2]) /\ c[3] = <<>>
    ELSE FALSE

HasIncompleteGroup(line) ==
    \E k \in 2..Len(Tokens(line)) : IsIncompleteGroup(Tokens(line)[k])

C6_CompleteGroupsOnly ==
    [][ /\ (InLoop /\ IsFaceLine /\ CurrentLineEnds /\ HasIncompleteGroup(CurrentLine))
              => (pc' = "exit" /\ error' # 0)
        /\ ErrorReturnsNull
      ]_vars

(***************************************************************************)
(* C7: whenever the index-group scanner succeeds on a group A/B/C of       *)
(* decimal digit strings of at most CHAR_BUDGET characters each, every     *)
(* source value is at least 1 and the stored index is the source value     *)
(* minus 1; a component of value 0 makes the scan fail.  Stated of the     *)
(* scans the face scanner makes on the line the loop is about to dispatch. *)
(***************************************************************************)
RECURSIVE TokenEnd(_)
TokenEnd(k) ==
    IF k >= file_chars_length THEN k
    ELSE IF CharAt(k) \in {" ", "\n"} THEN k ELSE TokenEnd(k + 1)

\* The token after the delimiter at offset start.
TokenAfter(start) == SubSeq(file_chars, start + 2, TokenEnd(start + 1))

IsBudgetTriple(token) ==
    /\ IsDigitTriple(token)
    /\ \A k \in 1..3 : Len(Components(token)[k]) <= CHAR_BUDGET

SourceValue(token, k) == DigitStringValue(Components(token)[k])

TranslatesGroup(start) ==
    LET token == TokenAfter(start)
        g == n3dc_obj_parse_obj_index_group(start)
    IN  (CharAt(start) = " " /\ IsBudgetTriple(token)) =>
            /\ g.ret = 0 =>
                  \A k \in 1..3 :
                      /\ SourceValue(token, k) >= 1
                      /\ U32IsInt(g.out[k])
                      /\ U32Int(g.out[k]) = SourceValue(token, k) - 1
            /\ (\E k \in 1..3 : SourceValue(token, k) = 0) => g.ret # 0

\* The offsets at which the face scanner starts an index-group scan.
GroupScanStarts(face_start) ==
    LET g1 == n3dc_obj_parse_obj_index_group(face_start) IN
    IF g1.ret # 0 THEN {face_start}
    ELSE LET g2 == n3dc_obj_parse_obj_index_group(g1.index_group_end) IN
         IF g2.ret # 0 THEN {face_start, g1.index_group_end}
         ELSE {face_start, g1.index_group_end, g2.index_group_end}

C7_IndexTranslation ==
    (InLoop /\ IsFaceLine) =>
        \A start \in GroupScanStarts(current_char_offset) : TranslatesGroup(start)

(***************************************************************************)
(* C8: on a successful load each output array holds one entry per corner,  *)
(* and the entry of corner c is a copy of the pool record its translated   *)
(* index selects, for every corner whose index selects a parsed record;    *)
(* for a well-formed input that is the record the face line names, taken   *)
(* in face order and corner order, shared records being duplicated.        *)
(***************************************************************************)
\* Corner c's index in arr selects, at `width` floats a record, a record
\* every float of which a parsed record wrote into pool.
SelectsParsed(arr, c, pool, width) ==
    /\ c \in DOMAIN arr
    /\ U32IsInt(arr[c])
    /\ U32Int(arr[c]) < HALF
    /\ \A k \in 0..(width - 1) : U32Int(arr[c]) * width + k \in DOMAIN pool

CopiesSelected(out, arr, c, pool, width) ==
    SelectsParsed(arr, c, pool, width) =>
        \A k \in 0..(width - 1) :
            out[c * width + k] = pool[U32Int(arr[c]) * width + k]

\* Component k of the record line of the given tag length, as a value.
RecordValue(line, tag_length, k) == Atof(Fields(line, tag_length)[k])

NamesSource(f, g) ==
    LET c == 3 * (f - 1) + (g - 1) IN
    /\ \A k \in 1..3 :
          ordered_vertices[c * 3 + k - 1]
              = RecordValue(VertexRecords[SourceIndex(f, g, 1)], 1, k)
    /\ \A k \in 1..2 :
          ordered_texture_coords[c * 2 + k - 1]
              = RecordValue(TextureCoordRecords[SourceIndex(f, g, 2)], 2, k)
    /\ \A k \in 1..3 :
          ordered_normals[c * 3 + k - 1]
              = RecordValue(NormalRecords[SourceIndex(f, g, 3)], 2, k)

C8_DrawStreamCopies ==
    Succeeded =>
        /\ CornersHeld(ordered_vertices, 3) = parsed_indices
        /\ CornersHeld(ordered_texture_coords, 2) = parsed_indices
        /\ CornersHeld(ordered_normals, 3) = parsed_indices
        /\ \A c \in 0..(parsed_indices - 1) :
              /\ CopiesSelected(ordered_vertices, vertex_indices, c, vertices, 3)
              /\ CopiesSelected(ordered_texture_coords, texture_indices, c,
                                texture_coords, 2)
              /\ CopiesSelected(ordered_normals, normal_indices, c, normals, 3)
        /\ C1_WellFormedCase =>
              \A f \in 1..Len(FaceRecords) : \A g \in 1..3 : NamesSource(f, g)

\* A well-formed input loaded with two corners that share a position record
\* and one that selects another.
C8_Witness ==
    /\ Succeeded
    /\ C1_WellFormedCase
    /\ parsed_indices = 3
    /\ vertex_indices[0] # vertex_indices[1]
    /\ vertex_indices[1] = vertex_indices[2]
    /\ ordered_vertices[0] # ordered_vertices[3]
    /\ ordered_vertices[3] = ordered_vertices[6]

(***************************************************************************)
(* C9: a face corner whose vertex, texture or normal index points past the *)
(* records parsed into its pool makes the load fail: the resolver never    *)
(* reads a pool slot that no parsed record wrote, and no load with such a  *)
(* corner returns a result.                                                *)
(***************************************************************************)
CornerResolves(c) ==
    /\ SelectsParsed(vertex_indices, c, vertices, 3)
    /\ SelectsParsed(texture_indices, c, texture_coords, 2)
    /\ SelectsParsed(normal_indices, c, normals, 3)

C9_NoDanglingIndex ==
    /\ (pc = "resolve" /\ i < parsed_indices) => CornerResolves(i)
    /\ Succeeded => \A c \in 0..(parsed_indices - 1) : CornerResolves(c)

(***************************************************************************)
(* C10: no buffer is freed before the load returns; when it returns, the   *)
(* source buffer, the three raw pools and the three raw index arrays have  *)
(* each been allocated once and freed once; with NULL returned (exactly    *)
(* when error is set) no output array and no result struct was allocated;  *)
(* with a result returned these four are allocated once and not freed.     *)
(***************************************************************************)
C10_ReleasedOnce ==
    /\ ~Returned => \A b \in Buffers : frees[b] = 0
    /\ Returned =>
          /\ \A b \in RawBuffers : mallocs[b] = 1 /\ frees[b] = 1
          /\ result \in {NULL, "obj"}
          /\ result = NULL <=> error # 0
          /\ \A b \in OutputBuffers \cup {"obj"} :
                /\ mallocs[b] = (IF result = NULL THEN 0 ELSE 1)
                /\ frees[b] = 0

\* A failure exit taken after records were parsed into every raw pool.
C10_Witness ==
    /\ Returned /\ result = NULL
    /\ DOMAIN vertices # {} /\ DOMAIN texture_coords # {} /\ DOMAIN normals # {}
    /\ DOMAIN vertex_indices # {}
    /\ \A b \in RawBuffers : frees[b] = 1

(***************************************************************************)
(* C11: when the source buffer has content after its last newline, the     *)
(* load returns NULL whenever it returns, and it never faults on a read    *)
(* past the end of the buffer.                                             *)
(***************************************************************************)
TrailingData == file_chars # <<>> /\ ~NewlineTerminated

C11_TruncationFails ==
    TrailingData =>
        /\ pc # "fault"
        /\ Returned => result = NULL

(***************************************************************************)
(* C12: when a face line has an index group with more than three           *)
(* components, or with a component in which a character is no decimal      *)
(* digit, the load returns NULL whenever it returns and never faults.      *)
(***************************************************************************)
HasNonDigit(s) == \E k \in 1..Len(s) : ~IsDigit(s[k])

IsForeignGroup(token) ==
    \/ Len(Components(token)) > 3
    \/ \E k \in 1..Len(Components(token)) : HasNonDigit(Components(token)[k])

HasForeignGroup(line) ==
    /\ HasTag(line, "f", " ")
    /\ \E k \in 2..Len(Tokens(line)) : IsForeignGroup(Tokens(line)[k])

C12_DigitsOnly ==
    (pc = "fault" \/ Returned) =>
        ((\E k \in 1..Len(TextLines) : HasForeignGroup(TextLines[k]))
            => (Returned /\ result = NULL))

(***************************************************************************)
(* C13: when the loop dispatches a v, vt or vn record within capacity and  *)
(* a character between the start of its numeric fields and its newline is  *)
(* no digit, '.', '-' or space, the vector scanner returns failure with no *)
(* component written, the step ends the loop with an error and every raw   *)
(* array unchanged, and the load then returns NULL.                        *)
(***************************************************************************)
IsVecLine == IsVertexLine \/ IsTextureCoordLine \/ IsNormalLine

WithinVecCapacity ==
    IF IsVertexLine THEN parsed_vertices < max_vertices
    ELSE IF IsTextureCoordLine THEN parsed_texture_coords < max_indices
    ELSE parsed_normals < max_normals

\* Where the scan of the dispatched record starts, and the newline (or the
\* end of the buffer) that bounds its fields.
FieldStart == current_char_offset + (IF IsVertexLine THEN 1 ELSE 2)

FieldEnd ==
    IF NewlineFrom(FieldStart) = -1 THEN file_chars_length
    ELSE NewlineFrom(FieldStart)

HasInvalidVecChar ==
    \E k \in FieldStart..(FieldEnd - 1) :
        ~(IsDigit(CharAt(k)) \/ CharAt(k) \in {".", "-", " "})

VecScan ==
    IF IsTextureCoordLine THEN n3dc_obj_parse_obj_vec2(FieldStart)
    ELSE n3dc_obj_parse_obj_vec3(FieldStart)

IsLineStart(k) == k = 0 \/ CharAt(k - 1) = "\n"

C14_ClassifiesLineStart ==
    InLoop =>
        /\ IsLineStart(current_char_offset - 1)
        /\ ~IsLineStart(current_char_offset)

(***************************************************************************)
(* C15: every iteration of the driver loop either ends the loop with an    *)
(* error or moves the cursor forward to a line start found by a scan that  *)
(* stopped inside the buffer, which puts the cursor at most one past the   *)
(* buffer's length; no iteration ends in a fault.                          *)
(***************************************************************************)
C15_IterationAdvances ==
    [][ InLoop =>
          \/ pc' = "exit" /\ error' # 0
          \/ /\ pc' = "loop" /\ error' = 0
             /\ current_char_offset' > current_char_offset
             /\ current_char_offset' <= file_chars_length + 1
      ]_vars

(***************************************************************************)
(* C16: a step never leaves error set anywhere but at the test after the   *)
(* loop or at the return, with no output array allocated or written; and   *)
(* from a state with error set the only step is the return of NULL, which  *)
(* leaves the cursor, the raw pools, the raw index arrays, their counters  *)
(* and the diagnostics as they were.                                       *)
(***************************************************************************)
C16_FirstErrorEnds ==
    [][ /\ error' # 0 =>
              /\ pc' \in {"exit", "done"}
              /\ pc' = "done" => result' = NULL
              /\ i' = 0
              /\ ordered_vertices' = Empty /\ ordered_texture_coords' = Empty
              /\ ordered_normals' = Empty
              /\ \A b \in OutputBuffers \cup {"obj"} : mallocs'[b] = 0
        /\ error # 0 =>
              /\ pc = "exit" /\ pc' = "done" /\ result' = NULL
              /\ UNCHANGED <<error, current_char_offset, stdout, ScanVars>>
      ]_vars

\* NULL was returned at an invalid v, vt or vn line with a well-formed face
\* line after it, of which no index was stored.
C16_Witness ==
    /\ Returned /\ result = NULL /\ error # 0
    /\ DOMAIN vertices # {}
    /\ parsed_indices = 0 /\ DOMAIN vertex_indices = {}
    /\ \E k \in 1..Len(TextLines) : IsFaceRecord(TextLines[k])

(***************************************************************************)
(* C17: when the scan of a dispatched v, vt or vn record succeeds, x is    *)
(* converted from the slice between the scan start and the first space, y  *)
(* from the slice between the first space and the second space (vec3) or   *)
(* the newline (vec2), and z from the slice between the second space and   *)
(* the newline, whatever spaces follow.                                    *)
(***************************************************************************)
\* The offset of the first space at or after offset k.
SpaceFrom(k) == FindChar(file_chars, " ", k + 1) - 1

SliceValue(start, end) == Atof(StringSection(start, end))

\* The values the dispatch step stored at `offset` of pool' are `values`.
StoredAt(pool, offset, values) ==
    \A k \in 1..Len(values) :
        offset + k - 1 \in DOMAIN pool /\ pool[offset + k - 1] = values[k]

Vec3Slices ==
    LET first == SpaceFrom(FieldStart)
        second == SpaceFrom(first + 1)
    IN  <<SliceValue(FieldStart, first), SliceValue(first, second),
          SliceValue(second, NewlineFrom(FieldStart))>>

Vec2Slices ==
    LET first == SpaceFrom(FieldStart)
    IN  <<SliceValue(FieldStart, first),
          SliceValue(first, NewlineFrom(FieldStart))>>

C17_FirstSpacesBound ==
    [][ (InLoop /\ IsVecLine /\ WithinVecCapacity /\ VecScan.ret = 0) =>
          IF IsVertexLine THEN StoredAt(vertices', vertex_offset, Vec3Slices)
          ELSE IF IsNormalLine THEN StoredAt(normals', normal_offset, Vec3Slices)
          ELSE StoredAt(texture_coords', texture_coord_offset, Vec2Slices)
      ]_vars

(***************************************************************************)
(* C18: the result of a successful load of a well-formed input whose face  *)
(* indices name records of the file is a function of the four sequences of *)
(* its v lines, its vt lines, its vn lines and its f lines, each in file    *)
(* order: where the lines of one kind stand among those of another, before *)
(* or after the faces that name them, does not enter into it.              *)
(***************************************************************************)
\* The 1-based index corner c of the face lines fs gives for pool `which`.
CornerSource(fs, c, which) ==
    DigitStringValue(Components(Fields(fs[(c \div 3) + 1], 1)[(c % 3) + 1])[which])

\* One record of `width` floats per corner of fs, taken from `records`.
GatherRecords(records, tag_length, width, fs, which) ==
    [k \in 0..(3 * Len(fs) * width - 1) |->
        RecordValue(records[CornerSource(fs, k \div width, which)],
                    tag_length, (k % width) + 1)]

DrawStream(vs, ts, ns, fs) ==
    <<3 * Len(fs), GatherRecords(vs, 1, 3, fs, 1),
      GatherRecords(ts, 2, 2, fs, 2), GatherRecords(ns, 2, 3, fs, 3)>>

====
